---- MODULE Spec2Model ----
(***************************************************************************)
(* State-machine model of MonitoringBot: the relay server (src/server.py)  *)
(* with its JSON registry document, command queue, metric store and chart  *)
(* helpers, and the monitored agent (src/client.py) with its TOFU pinning  *)
(* transport and main loop.                                                *)
(*                                                                         *)
(* Specifications:                                                         *)
(*   Spec      relay handlers run one at a time (each handler atomic)      *)
(*   SpecConc  bot thread and API thread interleave at load_db / save_db   *)
(*   SpecCli   the agent's main loop against a server whose certificate    *)
(*             may change                                                  *)
(*   SpecCliLive  SpecCli with a main thread that keeps running            *)
(*   SpecLink  the agent's requests served by the relay's handlers         *)
(*   SpecGaps  _find_gaps applied to bucket timestamps                     *)
(*   SpecBkt   group_30s applied to the rows of fetch_metrics              *)
(***************************************************************************)
EXTENDS Integers, Sequences, FiniteSets, TLC

\* ------------------------------------------------------------------------
\* Bounds of the model
\* ------------------------------------------------------------------------
\* handlers started (and clock ticks) in one behaviour
MaxOps == 3

\* ------------------------------------------------------------------------
\* Universes of the inputs
\* ------------------------------------------------------------------------
Secrets == {"s1", "s2"}
Users == {"u1", "u2"}
Chats == {"c1"}
Cmds == {"reboot", "shutdown", "speedtest"}
Texts == {"notice"}

\* Python None in an optional numeric field (MetricsPayload defaults).
NoValue == -1

\* nickname length limit of cmd_newkey / cmd_renamekey: name[:30]
NameLimit == 30
DefaultName == <<"P", "C">>
ShortName == <<"n", "b">>
LongName == [i \in 1..(NameLimit + 1) |-> IF i > NameLimit THEN "z" ELSE "x"]
NameArgs == {<<>>, LongName}
RenameArgs == {LongName}

\* variant: the name is stored as given
Truncate_keeps(name) == name

\* name[:30]
Truncate(name) == SubSeq(name, 1, IF Len(name) < NameLimit THEN Len(name) ELSE NameLimit)

\* Telemetry payloads sent to POST /api/push: valid is the outcome of the
\* MetricsPayload schema validation; vramSizes says whether vram_used and
\* vram_total are both present.
Payloads ==
    { [valid |-> TRUE,  cpu |-> 12, ram |-> 45, gpu |-> NoValue, vram |-> NoValue, vramSizes |-> FALSE],
      [valid |-> TRUE,  cpu |-> 50, ram |-> 45, gpu |-> 30,      vram |-> 20,      vramSizes |-> TRUE],
      [valid |-> TRUE,  cpu |-> 50, ram |-> 45, gpu |-> 30,      vram |-> NoValue, vramSizes |-> TRUE],
      [valid |-> FALSE, cpu |-> 12, ram |-> 45, gpu |-> NoValue, vram |-> NoValue, vramSizes |-> FALSE] }
NoPayload == [valid |-> FALSE, cpu |-> 0, ram |-> 0, gpu |-> NoValue, vram |-> NoValue, vramSizes |-> FALSE]

\* ------------------------------------------------------------------------
\* State
\* ------------------------------------------------------------------------
VARIABLES
    db,         \* the document of db.json: [secrets, active]
    metrics,    \* rows of the metrics table, in insertion order
    clock,      \* int(time.time()) on the server
    bot,        \* the bot thread: idle, or between load_db and save_db
    api,        \* the API thread: idle, or between load_db and save_db
    resp,       \* outcome of the last completed handler
    queued,     \* per secret: commands whose enqueue was saved (history)
    delivered,  \* per secret: commands returned by pulls (history)
    nops,       \* number of handlers started
    \* --- the agent (src/client.py) ---
    cpc,        \* position of the main loop: push, pull, dispatch, sleep
    todo,       \* commands of the last pull not yet dispatched
    fpFile,     \* content of FP_FILE (the pinned fingerprint, or none)
    liveCert,   \* certificate presented by whoever answers at SERVER
    running,    \* speedtest_running
    jobs,       \* positions of the live _speedtest_job threads
    last,       \* outcome of the last _request
    firstPin,   \* the fingerprint saved at first contact (history)
    tripped,    \* some _request has raised the fingerprint mismatch (history)
    cycles,     \* iterations of the main loop begun
    reqs,       \* parity of the number of _request calls made (history)
    \* --- chart helpers (src/server.py) ---
    gin,        \* the timestamps handed to _find_gaps
    gout,       \* its result
    rows,       \* the rows fetch_metrics returns for one secret
    grouped,    \* group_30s(rows)
    added       \* the row inserted last

srvVars == <<db, metrics, clock, bot, api, resp, queued, delivered, nops>>
cliVars == <<cpc, todo, fpFile, liveCert, running, jobs, last, firstPin, tripped, cycles, reqs>>
fnVars == <<gin, gout, rows, grouped, added>>
vars == <<srvVars, cliVars, fnVars>>

\* ------------------------------------------------------------------------
\* JSON document helpers
\* ------------------------------------------------------------------------
\* load_db on a missing file: {"secrets": {}, "active": {}}
EmptyDb == [secrets |-> <<>>, active |-> <<>>]

\* d[k] = v on a Python dict
DictSet(f, k, v) == [x \in (DOMAIN f) \cup {k} |-> IF x = k THEN v ELSE f[x]]

NoStatus == [kind |-> "none"]
TextStatus(t) == [kind |-> "text", text |-> t]

is_owner(entry, user) == \E i \in 1..Len(entry.owners) : entry.owners[i] = user

OwnerSet(entry) == {entry.owners[i] : i \in 1..Len(entry.owners)}

Idle == [pc |-> "idle"]

\* ------------------------------------------------------------------------
\* Handlers.  Each body maps the document returned by load_db (and the
\* handler's arguments) to the handler's outcome: its reply, whether it
\* reaches save_db and with which document, the commands it returns, the
\* commands it queued and the rows it inserted in the metrics table.
\* ------------------------------------------------------------------------
Outcome(op, user, secret, code, save, doc) ==
    [op |-> op, user |-> user, secret |-> secret, code |-> code, save |-> save,
     doc |-> doc, cmds |-> <<>>, enq |-> <<>>, samples |-> <<>>,
     payload |-> NoPayload, text |-> "", valid |-> TRUE]

\* the handler returns before save_db
Reply(op, user, secret, code, d) == Outcome(op, user, secret, code, FALSE, d)

\* the handler reaches save_db(doc)
Saved(op, user, secret, code, d) == Outcome(op, user, secret, code, TRUE, d)

NoResp == Reply("none", "", "", "none", EmptyDb)

WithEntry(d, secret, entry) == [d EXCEPT !.secrets = DictSet(d.secrets, secret, entry)]

\* cmd_newkey: gen_secret() is a random 20-character token, so any secret,
\* an existing key included, is a possible outcome of the draw.
cmd_newkey(d, user, chat, nameArg, secret) ==
    LET name == IF nameArg = <<>> THEN DefaultName ELSE Truncate(nameArg)
        entry == [owners |-> <<user>>, nickname |-> name,
                  status |-> NoStatus, pending |-> <<>>]
    IN  Saved("newkey", user, secret, "created",
              [secrets |-> DictSet(d.secrets, secret, entry),
               active |-> DictSet(d.active, chat, secret)])

\* variant: the user is appended without looking at the owner list
cmd_linkkey_appends(d, user, chat, secret) ==
    IF secret \notin DOMAIN d.secrets
    THEN Reply("linkkey", user, secret, "not_found", d)
    ELSE LET entry == [d.secrets[secret] EXCEPT !.owners = Append(@, user)]
         IN  Saved("linkkey", user, secret, "linked",
                   [secrets |-> DictSet(d.secrets, secret, entry),
                    active |-> DictSet(d.active, chat, secret)])

cmd_linkkey(d, user, chat, secret) ==
    IF secret \notin DOMAIN d.secrets
    THEN Reply("linkkey", user, secret, "not_found", d)
    ELSE IF is_owner(d.secrets[secret], user)
    THEN Reply("linkkey", user, secret, "already", d)
    ELSE LET entry == [d.secrets[secret] EXCEPT !.owners = Append(@, user)]
         IN  Saved("linkkey", user, secret, "linked",
                   [secrets |-> DictSet(d.secrets, secret, entry),
                    active |-> DictSet(d.active, chat, secret)])

cmd_setactive(d, user, chat, secret) ==
    IF secret \notin DOMAIN d.secrets \/ ~is_owner(d.secrets[secret], user)
    THEN Reply("set", user, secret, "no_access", d)
    ELSE Saved("set", user, secret, "active_set",
               [d EXCEPT !.active = DictSet(d.active, chat, secret)])

cmd_renamekey(d, user, secret, nameArg) ==
    IF secret \notin DOMAIN d.secrets \/ ~is_owner(d.secrets[secret], user)
    THEN Reply("renamekey", user, secret, "no_access", d)
    ELSE Saved("renamekey", user, secret, "renamed",
               WithEntry(d, secret,
                         [d.secrets[secret] EXCEPT !.nickname = Truncate(nameArg)]))

\* variant: the command is queued for any user
cb_enqueue_unchecked(d, user, action, secret) ==
    IF secret \notin DOMAIN d.secrets
    THEN Reply(action, user, secret,
               IF action = "speedtest" THEN "no_access_alert" ELSE "no_access", d)
    ELSE [Saved(action, user, secret, "queued",
                WithEntry(d, secret,
                          [d.secrets[secret] EXCEPT !.pending = Append(@, action)]))
          EXCEPT !.enq = <<action>>]

\* cb_action, branches reboot / shutdown (edit_message_text on denial) and
\* speedtest (alert on denial): entry["pending"].append(action).
cb_enqueue(d, user, action, secret) ==
    IF secret \notin DOMAIN d.secrets \/ ~is_owner(d.secrets[secret], user)
    THEN Reply(action, user, secret,
               IF action = "speedtest" THEN "no_access_alert" ELSE "no_access", d)
    ELSE [Saved(action, user, secret, "queued",
                WithEntry(d, secret,
                          [d.secrets[secret] EXCEPT !.pending = Append(@, action)]))
          EXCEPT !.enq = <<action>>]

\* build_status: the rendered snapshot text, by the values it shows.  The
\* VRAM line is printed only inside the GPU section and only when vram_used
\* and vram_total are present.
build_status(p) ==
    [kind |-> "stats", cpu |-> p.cpu, ram |-> p.ram, gpu |-> p.gpu,
     vram |-> IF p.gpu # NoValue /\ p.vramSizes THEN p.vram ELSE NoValue]

\* build_status raises (TypeError) when it formats p.vram = None with :.1f.
Renders(p) == ~(p.gpu # NoValue /\ p.vramSizes /\ p.vram = NoValue)

\* variant: the row is not stamped with the server clock
record_metric_unstamped(secret, now, p) ==
    [secret |-> secret, ts |-> 0, cpu |-> p.cpu, ram |-> p.ram,
     gpu |-> p.gpu, vram |-> p.vram]

\* record_metric: the inserted row, stamped with the server clock.
record_metric(secret, now, p) ==
    [secret |-> secret, ts |-> now, cpu |-> p.cpu, ram |-> p.ram,
     gpu |-> p.gpu, vram |-> p.vram]

\* variant: the row is inserted before the secret is looked up
push_records_first(d, secret, p, now) ==
    IF ~p.valid
    THEN [Reply("push", "", secret, "422", d) EXCEPT !.payload = p, !.valid = FALSE]
    ELSE IF secret \notin DOMAIN d.secrets
    THEN [Reply("push", "", secret, "404", d)
          EXCEPT !.payload = p, !.samples = <<record_metric(secret, now, p)>>]
    ELSE IF ~Renders(p)
    THEN [Reply("push", "", secret, "500", d)
          EXCEPT !.payload = p, !.samples = <<record_metric(secret, now, p)>>]
    ELSE [Saved("push", "", secret, "ok",
                WithEntry(d, secret,
                          [d.secrets[secret] EXCEPT !.status = build_status(p)]))
          EXCEPT !.payload = p, !.samples = <<record_metric(secret, now, p)>>]

\* POST /api/push/{secret}.  The body is validated against MetricsPayload
\* before the handler runs (422); the handler answers 404 for an unknown
\* secret, inserts the row, renders the status and saves.
push(d, secret, p, now) ==
    IF ~p.valid
    THEN [Reply("push", "", secret, "422", d) EXCEPT !.payload = p, !.valid = FALSE]
    ELSE IF secret \notin DOMAIN d.secrets
    THEN [Reply("push", "", secret, "404", d) EXCEPT !.payload = p]
    ELSE IF ~Renders(p)
    THEN [Reply("push", "", secret, "500", d)
          EXCEPT !.payload = p, !.samples = <<record_metric(secret, now, p)>>]
    ELSE [Saved("push", "", secret, "ok",
                WithEntry(d, secret,
                          [d.secrets[secret] EXCEPT !.status = build_status(p)]))
          EXCEPT !.payload = p, !.samples = <<record_metric(secret, now, p)>>]

\* variant: the text push also empties the command queue
push_text_clears_pending(d, secret, text, textValid) ==
    IF ~textValid
    THEN [Reply("msg", "", secret, "422", d) EXCEPT !.text = text, !.valid = FALSE]
    ELSE IF secret \notin DOMAIN d.secrets
    THEN [Reply("msg", "", secret, "404", d) EXCEPT !.text = text]
    ELSE [Saved("msg", "", secret, "ok",
                WithEntry(d, secret,
                          [d.secrets[secret] EXCEPT !.status = TextStatus(text),
                                                    !.pending = <<>>]))
          EXCEPT !.text = text]

\* POST /api/msg/{secret}; textValid is the outcome of the TextPayload
\* schema validation.
push_text(d, secret, text, textValid) ==
    IF ~textValid
    THEN [Reply("msg", "", secret, "422", d) EXCEPT !.text = text, !.valid = FALSE]
    ELSE IF secret \notin DOMAIN d.secrets
    THEN [Reply("msg", "", secret, "404", d) EXCEPT !.text = text]
    ELSE [Saved("msg", "", secret, "ok",
                WithEntry(d, secret,
                          [d.secrets[secret] EXCEPT !.status = TextStatus(text)]))
          EXCEPT !.text = text]

\* the columns fetch_metrics selects
Selected(row) ==
    [ts |-> row.ts, cpu |-> row.cpu, ram |-> row.ram, gpu |-> row.gpu, vram |-> row.vram]

\* variant: the rows of every secret are returned
fetch_metrics_any_secret(m, secret, since) ==
    LET hits == SelectSeq(m, LAMBDA row : row.ts >= since)
    IN  SortSeq([i \in 1..Len(hits) |-> Selected(hits[i])],
                LAMBDA a, b : a.ts < b.ts)

\* fetch_metrics: SELECT ts, cpu, ram, gpu, vram FROM metrics
\* WHERE secret=? AND ts>=? ORDER BY ts ASC
fetch_metrics(m, secret, since) ==
    LET hits == SelectSeq(m, LAMBDA row : row.secret = secret /\ row.ts >= since)
    IN  SortSeq([i \in 1..Len(hits) |-> Selected(hits[i])],
                LAMBDA a, b : a.ts < b.ts)

\* "not entry[\"status\"]": no status yet, or an empty text
NoData(entry) == entry.status = NoStatus \/ entry.status = TextStatus("")

\* callback status:<secret>
cb_status(d, user, secret) ==
    IF secret \notin DOMAIN d.secrets \/ ~is_owner(d.secrets[secret], user)
    THEN Reply("status", user, secret, "no_access", d)
    ELSE IF NoData(d.secrets[secret])
    THEN Reply("status", user, secret, "no_data", d)
    ELSE Reply("status", user, secret, "status_shown", d)

\* No argument and no active key of the chat
NoSecret == ""

\* resolve_secret: the argument, else the chat's active key; None unless the
\* user owns the entry
resolve_secret(d, user, chat, arg) ==
    LET secret == IF arg # NoSecret THEN arg
                  ELSE IF chat \in DOMAIN d.active THEN d.active[chat]
                  ELSE NoSecret
    IN  IF secret \notin DOMAIN d.secrets \/ ~is_owner(d.secrets[secret], user)
        THEN NoSecret
        ELSE secret

\* /status [key]
cmd_status(d, user, chat, arg) ==
    LET secret == resolve_secret(d, user, chat, arg)
    IN  IF secret = NoSecret
        THEN Reply("status", user, arg, "no_access", d)
        ELSE IF secret \notin DOMAIN d.secrets \/ NoData(d.secrets[secret])
        THEN Reply("status", user, secret, "no_data", d)
        ELSE Reply("status", user, secret, "status_shown", d)

\* the chart buttons: metric and period in seconds
ChartMetrics == {"cpu", "all"}
Periods == {600, 86400}

\* plot_metric / plot_all_metrics: None when the period holds no row of the
\* secret, else a picture drawn from the rows
plot_metric(m, secret, seconds, now) ==
    IF fetch_metrics(m, secret, now - seconds) = <<>> THEN "none" ELSE "picture"

\* callback graph:<metric>:<secret>: the keyboard of periods
cb_graph_menu(d, user, metric, secret) ==
    Reply("graph", user, secret, "periods", d)

\* callback graph:<metric>:<seconds>:<secret>: the chart is sent to the
\* chat of whoever pressed the button
cb_graph(d, user, metric, seconds, secret, m, now) ==
    IF plot_metric(m, secret, seconds, now) = "none"
    THEN Reply("graph", user, secret, "no_data", d)
    ELSE Reply("graph", user, secret, "chart", d)

\* variant: the commands are returned but pending is not reset
pull_keeps_pending(d, secret) ==
    IF secret \notin DOMAIN d.secrets
    THEN Reply("pull", "", secret, "404", d)
    ELSE [Saved("pull", "", secret, "ok", d)
          EXCEPT !.cmds = d.secrets[secret].pending]

\* GET /api/pull/{secret}
pull(d, secret) ==
    IF secret \notin DOMAIN d.secrets
    THEN Reply("pull", "", secret, "404", d)
    ELSE [Saved("pull", "", secret, "ok",
                WithEntry(d, secret, [d.secrets[secret] EXCEPT !.pending = <<>>]))
          EXCEPT !.cmds = d.secrets[secret].pending]

\* ------------------------------------------------------------------------
\* The agent: TOFU transport (src/client.py)
\* ------------------------------------------------------------------------
CertA == "certA"
CertB == "certB"
Certs == {CertA, CertB}

\* _load_fp() on a missing FP_FILE
NoFp == <<>>

\* sha256(der).hexdigest(): distinct certificates, distinct digests
_fingerprint(der) == <<"sha256", der>>

\* What the network does to one _request:
\*   down          session.request raises (connect, timeout, TLS handshake)
\*   sock          the response arrives; its socket gives the peer certificate
\*   refetch       the response arrives; the socket gives no certificate
\*                 (AttributeError) and _fetch_cert_der returns it
\*   refetch_fail  as refetch, but _fetch_cert_der raises
RequestEnvs == {"down", "sock", "refetch", "refetch_fail"}

RequestResult(outcome, fp, seen, sent) ==
    [outcome |-> outcome, fp |-> fp, seen |-> seen, sent |-> sent]

\* variant: a changed fingerprint is pinned anew instead of refused
_request_repins(pinned, cert, env) ==
    IF env = "down" THEN RequestResult("error", pinned, FALSE, FALSE)
    ELSE IF env = "refetch_fail" THEN RequestResult("error", pinned, FALSE, TRUE)
    ELSE RequestResult("response", _fingerprint(cert), TRUE, TRUE)

\* variant: a mismatch removes the stored fingerprint
_request_unpins(pinned, cert, env) ==
    IF env = "down" THEN RequestResult("error", pinned, FALSE, FALSE)
    ELSE IF env = "refetch_fail" THEN RequestResult("error", pinned, FALSE, TRUE)
    ELSE LET current_fp == _fingerprint(cert)
         IN  IF pinned = NoFp
             THEN RequestResult("response", current_fp, TRUE, TRUE)
             ELSE IF pinned # current_fp
             THEN RequestResult("mismatch", NoFp, TRUE, TRUE)
             ELSE RequestResult("response", pinned, TRUE, TRUE)

\* _request: outcome is "response" (resp returned), "mismatch" (RuntimeError)
\* or "error" (any other exception); fp is FP_FILE afterwards; seen says
\* whether the peer certificate was obtained; sent whether the HTTP request
\* was carried out by session.request.
_request(pinned, cert, env) ==
    IF env = "down" THEN RequestResult("error", pinned, FALSE, FALSE)
    ELSE IF env = "refetch_fail" THEN RequestResult("error", pinned, FALSE, TRUE)
    ELSE LET current_fp == _fingerprint(cert)
         IN  IF pinned = NoFp
             THEN RequestResult("response", current_fp, TRUE, TRUE)
             ELSE IF pinned # current_fp
             THEN RequestResult("mismatch", pinned, TRUE, TRUE)
             ELSE RequestResult("response", pinned, TRUE, TRUE)

\* HTTP status of the response, as raise_for_status sees it
Statuses == {"ok", "http_error"}

\* push_metrics / push_text / pull_cmds: _request and raise_for_status
\* inside try / except Exception.  The result says how the call ended; the
\* caller never sees an exception.
Call(r, status) ==
    IF r.outcome = "response" THEN status ELSE r.outcome

\* variant: the commands of the response are returned however the call ended
pull_cmds_unguarded(r, status, cmds) == cmds

\* pull_cmds: the commands of the response, or [] when the call failed
pull_cmds(r, status, cmds) ==
    IF Call(r, status) = "ok" THEN cmds ELSE <<>>

NoLast == [kind |-> "none", outcome |-> "none", cert |-> CertA,
           seen |-> FALSE, pinned |-> NoFp, ended |-> "none"]

\* one _request made by push_metrics, push_text or pull_cmds
DoRequest(kind, env, status) ==
    LET r == _request(fpFile, liveCert, env)
    IN  /\ fpFile' = r.fp
        /\ last' = [kind |-> kind, outcome |-> r.outcome, cert |-> liveCert,
                     seen |-> r.seen, pinned |-> fpFile, ended |-> Call(r, status)]
        /\ firstPin' = IF fpFile = NoFp THEN r.fp ELSE firstPin
        /\ tripped' = (tripped \/ r.outcome = "mismatch")
        /\ reqs' = (reqs + 1) % 2

NoRequest == UNCHANGED <<fpFile, last, firstPin, tripped, reqs>>

\* ------------------------------------------------------------------------
\* The agent: main loop and speed-test job
\* ------------------------------------------------------------------------
\* iterations of the main loop in one behaviour
MaxCycles == 2
\* commands returned by one pull
MaxPull == 2

SeqsUpTo(S, n) == UNION {[1..k -> S] : k \in 0..n}
PullResults == SeqsUpTo(Cmds, MaxPull)

RemoveAt(q, i) == SubSeq(q, 1, i - 1) \o SubSeq(q, i + 1, Len(q))

CliStart(certs) ==
    /\ cpc = "push"
    /\ todo = <<>>
    /\ fpFile = NoFp
    /\ liveCert \in certs
    /\ running = FALSE
    /\ jobs = <<>>
    /\ last = NoLast
    /\ firstPin = NoFp
    /\ tripped = FALSE
    /\ cycles = 0
    /\ reqs = 0

\* push_metrics(gather_metrics())
PushMetrics ==
    /\ cpc = "push"
    /\ cycles < MaxCycles
    /\ \E env \in RequestEnvs, status \in Statuses : DoRequest("push", env, status)
    /\ cycles' = cycles + 1
    /\ cpc' = "pull"
    /\ UNCHANGED <<todo, liveCert, running, jobs>>
    /\ UNCHANGED <<srvVars, fnVars>>

\* pull_cmds(): the commands of the response, or [] when the call failed
PullCmds ==
    /\ cpc = "pull"
    /\ \E env \in RequestEnvs, status \in Statuses, cmds \in PullResults :
          /\ DoRequest("pull", env, status)
          /\ todo' = pull_cmds(_request(fpFile, liveCert, env), status, cmds)
    /\ cpc' = IF todo' = <<>> THEN "sleep" ELSE "dispatch"
    /\ UNCHANGED <<liveCert, running, jobs, cycles>>
    /\ UNCHANGED <<srvVars, fnVars>>

\* variant: a speedtest command starts a job whatever the flag says
Dispatch_always_starts ==
    /\ cpc = "dispatch"
    /\ todo # <<>>
    /\ IF Head(todo) = "speedtest"
       THEN /\ running' = TRUE
            /\ jobs' = Append(jobs, "announce")
            /\ NoRequest
       ELSE /\ \E env \in RequestEnvs, status \in Statuses :
                   DoRequest(Head(todo), env, status)
            /\ UNCHANGED <<running, jobs>>
    /\ todo' = Tail(todo)
    /\ cpc' = IF todo' = <<>> THEN "sleep" ELSE "dispatch"
    /\ UNCHANGED <<liveCert, cycles>>
    /\ UNCHANGED <<srvVars, fnVars>>

\* one iteration of "for c in pull_cmds()"
Dispatch ==
    /\ cpc = "dispatch"
    /\ todo # <<>>
    /\ IF Head(todo) = "speedtest" /\ ~running
       THEN /\ running' = TRUE
            /\ jobs' = Append(jobs, "announce")
            /\ NoRequest
       ELSE /\ \E env \in RequestEnvs, status \in Statuses :
                   DoRequest(IF Head(todo) = "speedtest" THEN "busy" ELSE Head(todo),
                             env, status)
            /\ UNCHANGED <<running, jobs>>
    /\ todo' = Tail(todo)
    /\ cpc' = IF todo' = <<>> THEN "sleep" ELSE "dispatch"
    /\ UNCHANGED <<liveCert, cycles>>
    /\ UNCHANGED <<srvVars, fnVars>>

\* variant: the loop waits for the speed-test thread before it sleeps
Sleep_joins ==
    /\ cpc = "sleep"
    /\ jobs = <<>>
    /\ cpc' = "push"
    /\ NoRequest
    /\ UNCHANGED <<todo, liveCert, running, jobs, cycles>>
    /\ UNCHANGED <<srvVars, fnVars>>

\* time.sleep(INTERVAL)
Sleep ==
    /\ cpc = "sleep"
    /\ cpc' = "push"
    /\ NoRequest
    /\ UNCHANGED <<todo, liveCert, running, jobs, cycles>>
    /\ UNCHANGED <<srvVars, fnVars>>

\* variant: a result push that fails ends the thread before the flag is
\* cleared
JobStep_dies_on_error ==
    /\ \E i \in 1..Len(jobs) :
          \/ /\ jobs[i] = "announce"
             /\ \E env \in RequestEnvs, status \in Statuses :
                    DoRequest("announce", env, status)
             /\ jobs' = [jobs EXCEPT ![i] = "test"]
             /\ UNCHANGED running
          \/ /\ jobs[i] = "test"
             /\ NoRequest
             /\ jobs' = [jobs EXCEPT ![i] = "report"]
             /\ UNCHANGED running
          \/ /\ jobs[i] = "report"
             /\ \E env \in RequestEnvs, status \in Statuses :
                    /\ DoRequest("report", env, status)
                    /\ jobs' = IF Call(_request(fpFile, liveCert, env), status) = "ok"
                               THEN [jobs EXCEPT ![i] = "clear"]
                               ELSE RemoveAt(jobs, i)
             /\ UNCHANGED running
          \/ /\ jobs[i] = "clear"
             /\ NoRequest
             /\ running' = FALSE
             /\ jobs' = RemoveAt(jobs, i)
    /\ UNCHANGED <<cpc, todo, liveCert, cycles>>
    /\ UNCHANGED <<srvVars, fnVars>>

\* _speedtest_job: push_text("testing"), run_speedtest(), push_text(result),
\* speedtest_running = False
JobStep ==
    /\ \E i \in 1..Len(jobs) :
          \/ /\ jobs[i] = "announce"
             /\ \E env \in RequestEnvs, status \in Statuses :
                    DoRequest("announce", env, status)
             /\ jobs' = [jobs EXCEPT ![i] = "test"]
             /\ UNCHANGED running
          \/ /\ jobs[i] = "test"
             /\ NoRequest
             /\ jobs' = [jobs EXCEPT ![i] = "report"]
             /\ UNCHANGED running
          \/ /\ jobs[i] = "report"
             /\ \E env \in RequestEnvs, status \in Statuses :
                    DoRequest("report", env, status)
             /\ jobs' = [jobs EXCEPT ![i] = "clear"]
             /\ UNCHANGED running
          \/ /\ jobs[i] = "clear"
             /\ NoRequest
             /\ running' = FALSE
             /\ jobs' = RemoveAt(jobs, i)
    /\ UNCHANGED <<cpc, todo, liveCert, cycles>>
    /\ UNCHANGED <<srvVars, fnVars>>

\* the certificate presented at the server address changes (rotation,
\* regeneration by _ensure_ssl, or another party answering)
CertChange ==
    /\ \E c \in Certs \ {liveCert} : liveCert' = c
    /\ NoRequest
    /\ UNCHANGED <<cpc, todo, running, jobs, cycles>>
    /\ UNCHANGED <<srvVars, fnVars>>

NextCli == PushMetrics \/ PullCmds \/ Dispatch \/ Sleep \/ JobStep \/ CertChange

\* ------------------------------------------------------------------------
\* Chart helpers: group_30s and _find_gaps
\* ------------------------------------------------------------------------
\* bucket width of group_30s, in seconds
BucketWidth == 30
\* default factor of _find_gaps
Factor == 2
\* the median interval _find_gaps names as its last fallback, in seconds
FallbackInterval == 60

RECURSIVE Gcd(_, _)
Gcd(a, b) == IF b = 0 THEN a ELSE Gcd(b, a % b)

\* the quotient total / n as a fraction in lowest terms
Mean(total, n) == LET g == Gcd(total, n) IN <<total \div g, n \div g>>
\* None in a bucket
NoMean == <<0, 0>>

RECURSIVE Sum(_)
Sum(q) == IF q = <<>> THEN 0 ELSE Head(q) + Sum(Tail(q))

Range(q) == {q[i] : i \in 1..Len(q)}

BucketKey(ts) == ts - (ts % BucketWidth)

\* sum(v[f] for v in vals if v[f] is not None) / n if any(...) else None
OptionalMean(present, n) ==
    IF present = <<>> THEN NoMean ELSE Mean(Sum(present), n)

RECURSIVE SetToSortedSeq(_)
SetToSortedSeq(S) ==
    IF S = {} THEN <<>>
    ELSE LET m == CHOOSE x \in S : \A y \in S : x <= y
         IN  <<m>> \o SetToSortedSeq(S \ {m})

\* variant: the sums are divided by the number of rows fetched instead of
\* the number of rows in the bucket
group_30s_all_rows(rs) ==
    LET keys == SetToSortedSeq({BucketKey(rs[i].ts) : i \in 1..Len(rs)})
        bucket(k) == SelectSeq(rs, LAMBDA r : BucketKey(r.ts) = k)
        col(vals, f) == [i \in 1..Len(vals) |-> vals[i][f]]
    IN  [j \in 1..Len(keys) |->
            LET vals == bucket(keys[j])
                n == Len(rs)
            IN  [ts |-> keys[j],
                 cpu |-> Mean(Sum(col(vals, "cpu")), n),
                 ram |-> Mean(Sum(col(vals, "ram")), n),
                 gpu |-> OptionalMean(
                     SelectSeq(col(vals, "gpu"), LAMBDA v : v # NoValue), n),
                 vram |-> OptionalMean(
                     SelectSeq(col(vals, "vram"), LAMBDA v : v # NoValue), n)]]

\* variant: a field no sample carries is averaged like the others
group_30s_zero_fill(rs) ==
    LET keys == SetToSortedSeq({BucketKey(rs[i].ts) : i \in 1..Len(rs)})
        bucket(k) == SelectSeq(rs, LAMBDA r : BucketKey(r.ts) = k)
        col(vals, f) == [i \in 1..Len(vals) |-> vals[i][f]]
    IN  [j \in 1..Len(keys) |->
            LET vals == bucket(keys[j])
                n == Len(vals)
            IN  [ts |-> keys[j],
                 cpu |-> Mean(Sum(col(vals, "cpu")), n),
                 ram |-> Mean(Sum(col(vals, "ram")), n),
                 gpu |-> Mean(Sum(SelectSeq(col(vals, "gpu"),
                                            LAMBDA v : v # NoValue)), n),
                 vram |-> Mean(Sum(SelectSeq(col(vals, "vram"),
                                             LAMBDA v : v # NoValue)), n)]]

\* group_30s: one bucket per key ts - ts % 30, in ascending key order; cpu
\* and ram are sum / n; gpu and vram are the sum of the values present
\* divided by n, or None when no sample of the bucket has the field.
group_30s(rs) ==
    LET keys == SetToSortedSeq({BucketKey(rs[i].ts) : i \in 1..Len(rs)})
        bucket(k) == SelectSeq(rs, LAMBDA r : BucketKey(r.ts) = k)
        col(vals, f) == [i \in 1..Len(vals) |-> vals[i][f]]
    IN  [j \in 1..Len(keys) |->
            LET vals == bucket(keys[j])
                n == Len(vals)
            IN  [ts |-> keys[j],
                 cpu |-> Mean(Sum(col(vals, "cpu")), n),
                 ram |-> Mean(Sum(col(vals, "ram")), n),
                 gpu |-> OptionalMean(
                     SelectSeq(col(vals, "gpu"), LAMBDA v : v # NoValue), n),
                 vram |-> OptionalMean(
                     SelectSeq(col(vals, "vram"), LAMBDA v : v # NoValue), n)]]

\* statistics.median: the middle value, or the mean of the two middle
\* values (exact here: the intervals between bucket keys are even numbers)
median(xs) ==
    LET sorted == SortSeq(xs, LAMBDA a, b : a < b)
        n == Len(xs)
    IN  IF n % 2 = 1 THEN sorted[(n + 1) \div 2]
        ELSE (sorted[n \div 2] + sorted[(n \div 2) + 1]) \div 2

Max(xs) == CHOOSE m \in Range(xs) : \A x \in Range(xs) : x <= m

\* intervals[i] = ts[i] - ts[i-1], i = 1 .. len(ts)-1 (positions from 0)
Intervals(ts) == [i \in 1..(Len(ts) - 1) |-> ts[i + 1] - ts[i]]

GapsResult(segments, gaps, thr) ==
    [done |-> TRUE, segments |-> segments, gaps |-> gaps, thr |-> thr]
NotRun == [done |-> FALSE, segments |-> <<>>, gaps |-> <<>>, thr |-> 0]

\* the loop of _find_gaps from interval i on; positions count from 0
RECURSIVE GapLoop(_, _, _, _, _, _)
GapLoop(ts, thr, i, start, segments, gaps) ==
    IF i > Len(ts) - 1
    THEN GapsResult(Append(segments, <<start, Len(ts) - 1>>), gaps, thr)
    ELSE IF ts[i + 1] - ts[i] > thr
    THEN GapLoop(ts, thr, i + 1, i,
                 Append(segments, <<start, i - 1>>),
                 Append(gaps, <<ts[i], ts[i + 1]>>))
    ELSE GapLoop(ts, thr, i + 1, start, segments, gaps)

\* variant: an interval equal to the threshold is classified as a gap
RECURSIVE GapLoopInclusive(_, _, _, _, _, _)
GapLoopInclusive(ts, thr, i, start, segments, gaps) ==
    IF i > Len(ts) - 1
    THEN GapsResult(Append(segments, <<start, Len(ts) - 1>>), gaps, thr)
    ELSE IF ts[i + 1] - ts[i] >= thr
    THEN GapLoopInclusive(ts, thr, i + 1, i,
                          Append(segments, <<start, i - 1>>),
                          Append(gaps, <<ts[i], ts[i + 1]>>))
    ELSE GapLoopInclusive(ts, thr, i + 1, start, segments, gaps)

_find_gaps_inclusive(ts) ==
    IF Len(ts) < 2 THEN GapsResult(<<<<0, Len(ts) - 1>>>>, <<>>, 0)
    ELSE LET intervals == Intervals(ts)
             m == median(intervals)
             med == IF m <= 0 THEN Max(intervals) ELSE m
         IN  GapLoopInclusive(ts, med * Factor, 1, 0, <<>>, <<>>)

\* _find_gaps(ts) with the default factor
_find_gaps(ts) ==
    IF Len(ts) < 2 THEN GapsResult(<<<<0, Len(ts) - 1>>>>, <<>>, 0)
    ELSE LET intervals == Intervals(ts)
             m == median(intervals)
             med == IF m <= 0 THEN Max(intervals) ELSE m
         IN  GapLoop(ts, med * Factor, 1, 0, <<>>, <<>>)

\* ------------------------------------------------------------------------
\* Inputs of the chart helpers
\* ------------------------------------------------------------------------
\* bucket keys 0, 30, .. , 30 * MaxSlot
MaxSlot == 4
\* rows in one fetch
MaxRows == 3

ExampleTs == <<0, 30, 60, 600, 630>>

\* plot_metric hands _find_gaps the keys of group_30s: strictly ascending
\* multiples of 30
TsValues == {BucketWidth * k : k \in 0..MaxSlot} \cup Range(ExampleTs)
GapInputs == {SetToSortedSeq(S) : S \in SUBSET TsValues}

SampleTs == {0, 29, 30, 45}
Samples == [ts : SampleTs, cpu : {10, 50}, ram : {40}, gpu : {NoValue, 60}, vram : {NoValue}]
NoSample == [ts |-> 0, cpu |-> 0, ram |-> 0, gpu |-> NoValue, vram |-> NoValue]

\* fetch_metrics orders by ts ascending
Ascending(rs) == \A i \in 1..(Len(rs) - 1) : rs[i].ts <= rs[i + 1].ts
RowInputs == {rs \in SeqsUpTo(Samples, MaxRows - 1) : Ascending(rs)}

NotGrouped == [done |-> FALSE, buckets |-> <<>>]

FnStart(tsInputs, rowInputs) ==
    /\ gin \in tsInputs
    /\ gout = NotRun
    /\ rows \in rowInputs
    /\ grouped = NotGrouped
    /\ added = NoSample

\* segments, gaps, _ = _find_gaps(ts)
FindGaps ==
    /\ ~gout.done
    /\ gout' = _find_gaps(gin)
    /\ UNCHANGED <<gin, rows, grouped, added>>
    /\ UNCHANGED <<srvVars, cliVars>>

\* rows = group_30s(rows)
Group ==
    /\ ~grouped.done
    /\ grouped' = [done |-> TRUE, buckets |-> group_30s(rows)]
    /\ UNCHANGED <<gin, gout, rows, added>>
    /\ UNCHANGED <<srvVars, cliVars>>

\* a further row is recorded for the secret, and the rows are fetched and
\* bucketed again
InsertAndGroup ==
    /\ grouped.done
    /\ Len(rows) < MaxRows
    /\ \E r \in Samples, i \in 0..Len(rows) :
          LET new == SubSeq(rows, 1, i) \o <<r>> \o SubSeq(rows, i + 1, Len(rows))
          IN  /\ Ascending(new)
              /\ rows' = new
              /\ added' = r
              /\ grouped' = [done |-> TRUE, buckets |-> group_30s(new)]
    /\ UNCHANGED <<gin, gout>>
    /\ UNCHANGED <<srvVars, cliVars>>

\* ------------------------------------------------------------------------
\* The calls the environment can make
\* ------------------------------------------------------------------------
NewKeyCalls(d) ==
    {cmd_newkey(d, u, c, n, s) : u \in Users, c \in Chats, n \in NameArgs, s \in Secrets}
LinkKeyCalls(d) ==
    {cmd_linkkey(d, u, c, s) : u \in Users, c \in Chats, s \in Secrets}
SetActiveCalls(d) ==
    {cmd_setactive(d, u, c, s) : u \in Users, c \in Chats, s \in Secrets}
RenameCalls(d) ==
    {cmd_renamekey(d, u, s, n) : u \in Users, s \in Secrets, n \in RenameArgs}
EnqueueCalls(d) ==
    {cb_enqueue(d, u, a, s) : u \in Users, a \in Cmds, s \in Secrets}
PushCalls(d, now) ==
    {push(d, s, p, now) : s \in Secrets, p \in Payloads}
MsgCalls(d) ==
    {push_text(d, s, t, v) : s \in Secrets, t \in Texts, v \in BOOLEAN}
PullCalls(d) ==
    {pull(d, s) : s \in Secrets}

BotCalls(d) ==
    NewKeyCalls(d) \cup LinkKeyCalls(d) \cup SetActiveCalls(d)
        \cup RenameCalls(d) \cup EnqueueCalls(d)
ApiCalls(d, now) == PushCalls(d, now) \cup MsgCalls(d) \cup PullCalls(d)

\* The number of handlers started bounds every history.
WithinBounds(out) == nops < MaxOps

\* ------------------------------------------------------------------------
\* Effects of a handler on the shared state
\* ------------------------------------------------------------------------
\* the rows inserted by record_metric
Insert(out) == metrics' = metrics \o out.samples

\* save_db (when the handler reaches it), the reply, and the histories
Finish(out) ==
    /\ db' = IF out.save THEN out.doc ELSE db
    /\ resp' = [out EXCEPT !.doc = EmptyDb]
    /\ queued' =
          IF out.op = "newkey" THEN [queued EXCEPT ![out.secret] = <<>>]
          ELSE IF out.enq # <<>> THEN [queued EXCEPT ![out.secret] = @ \o out.enq]
          ELSE queued
    /\ delivered' =
          IF out.op = "newkey" THEN [delivered EXCEPT ![out.secret] = <<>>]
          ELSE IF out.op = "pull" /\ out.code = "ok"
               THEN [delivered EXCEPT ![out.secret] = @ \o out.cmds]
          ELSE delivered

\* a handler run from load_db to its reply without interruption
Handle(out) ==
    /\ bot = Idle /\ api = Idle
    /\ WithinBounds(out)
    /\ Insert(out)
    /\ Finish(out)
    /\ nops' = nops + 1
    /\ UNCHANGED <<clock, bot, api>>
    /\ UNCHANGED <<cliVars, fnVars>>

\* ------------------------------------------------------------------------
\* Spec: handlers one at a time
\* ------------------------------------------------------------------------
\* db.json persists between runs: the server starts on a missing file or
\* on the registry a previous run left (here: one key created by u1).
SeedDb == cmd_newkey(EmptyDb, "u1", "c1", <<>>, "s1").doc

SrvStart(docs) ==
    /\ db \in docs
    /\ metrics = <<>>
    /\ clock = 0
    /\ bot = Idle
    /\ api = Idle
    /\ resp = NoResp
    /\ queued = [s \in Secrets |-> <<>>]
    /\ delivered = [s \in Secrets |-> <<>>]
    /\ nops = 0

Init == SrvStart({EmptyDb, SeedDb}) /\ CliStart({CertA}) /\ FnStart({<<>>}, {<<>>})

NewKey == \E out \in NewKeyCalls(db) : Handle(out)
LinkKey == \E out \in LinkKeyCalls(db) : Handle(out)
SetActive == \E out \in SetActiveCalls(db) : Handle(out)
RenameKey == \E out \in RenameCalls(db) : Handle(out)
Enqueue == \E out \in EnqueueCalls(db) : Handle(out)
Push == \E out \in PushCalls(db, clock) : Handle(out)
Msg == \E out \in MsgCalls(db) : Handle(out)
Pull == \E out \in PullCalls(db) : Handle(out)

\* the server clock advances
Tick ==
    /\ nops < MaxOps
    /\ clock' = clock + 1
    /\ nops' = nops + 1
    /\ UNCHANGED <<db, metrics, bot, api, resp, queued, delivered>>
    /\ UNCHANGED <<cliVars, fnVars>>

Next ==
    \/ NewKey \/ LinkKey \/ SetActive \/ RenameKey \/ Enqueue
    \/ Push \/ Msg \/ Pull \/ Tick

Spec == Init /\ [][Next]_vars

\* ------------------------------------------------------------------------
\* SpecView: Spec with the handlers that only read: status and charts
\* ------------------------------------------------------------------------
StatusCalls(d) ==
    {cb_status(d, u, s) : u \in Users, s \in Secrets}
        \cup {cmd_status(d, u, c, a) : u \in Users, c \in Chats,
                                       a \in Secrets \cup {NoSecret}}
GraphCalls(d, m, now) ==
    {cb_graph_menu(d, u, k, s) : u \in Users, k \in ChartMetrics, s \in Secrets}
        \cup {cb_graph(d, u, k, p, s, m, now) :
                 u \in Users, k \in ChartMetrics, p \in Periods, s \in Secrets}

Status == \E out \in StatusCalls(db) : Handle(out)
Graph == \E out \in GraphCalls(db, metrics, clock) : Handle(out)

NextView == Next \/ Status \/ Graph

SpecView == Init /\ [][NextView]_vars

\* ------------------------------------------------------------------------
\* SpecConc: the bot (polling loop, main thread) and the API (uvicorn
\* thread) each run one handler at a time; the two threads interleave
\* between a handler's load_db and its save_db.
\* ------------------------------------------------------------------------
BotLoad ==
    /\ bot = Idle
    /\ \E out \in BotCalls(db) :
          /\ WithinBounds(out)
          /\ nops' = nops + 1
          /\ IF out.save
             THEN /\ bot' = [pc |-> "loaded", out |-> out]
                  /\ UNCHANGED <<db, resp, queued, delivered>>
             ELSE /\ bot' = Idle
                  /\ Finish(out)
    /\ UNCHANGED <<metrics, clock, api>>
    /\ UNCHANGED <<cliVars, fnVars>>

BotSave ==
    /\ bot.pc = "loaded"
    /\ Finish(bot.out)
    /\ bot' = Idle
    /\ UNCHANGED <<metrics, clock, api, nops>>
    /\ UNCHANGED <<cliVars, fnVars>>

ApiLoad ==
    /\ api = Idle
    /\ \E out \in ApiCalls(db, clock) :
          /\ WithinBounds(out)
          /\ nops' = nops + 1
          /\ Insert(out)
          /\ IF out.save
             THEN /\ api' = [pc |-> "loaded", out |-> out]
                  /\ UNCHANGED <<db, resp, queued, delivered>>
             ELSE /\ api' = Idle
                  /\ Finish(out)
    /\ UNCHANGED <<clock, bot>>
    /\ UNCHANGED <<cliVars, fnVars>>

ApiSave ==
    /\ api.pc = "loaded"
    /\ Finish(api.out)
    /\ api' = Idle
    /\ UNCHANGED <<metrics, clock, bot, nops>>
    /\ UNCHANGED <<cliVars, fnVars>>

NextConc == BotLoad \/ BotSave \/ ApiLoad \/ ApiSave \/ Tick

SpecConc == Init /\ [][NextConc]_vars

\* ------------------------------------------------------------------------
\* SpecCli: the agent against a server whose certificate may change
\* ------------------------------------------------------------------------
InitCli == SrvStart({EmptyDb}) /\ CliStart(Certs) /\ FnStart({<<>>}, {<<>>})

SpecCli == InitCli /\ [][NextCli]_vars

\* The main thread is never blocked for good: every request has a timeout
\* and the sleep is finite.  Nothing is assumed of the speed-test thread or
\* of the certificate.
MainLoopRuns ==
    /\ WF_vars(PushMetrics) /\ WF_vars(PullCmds)
    /\ WF_vars(Dispatch) /\ WF_vars(Sleep)

SpecCliLive == SpecCli /\ MainLoopRuns

\* The speed-test thread is scheduled, and each of its steps ends: its two
\* pushes have a timeout and catch every exception, and run_speedtest
\* bounds the test with a timeout and catches every exception.  Nothing is
\* assumed of the main loop or of the certificate.
JobRuns == WF_vars(JobStep)

SpecCliJobs == SpecCli /\ JobRuns

\* ------------------------------------------------------------------------
\* SpecLink: the agent's requests are served by the relay.  A request that
\* session.request carries out runs the relay's handler, whatever _request
\* does with the response afterwards.
\* ------------------------------------------------------------------------
\* AGENT_SECRET
AgentSecret == "s1"

\* gather_metrics() on a machine without GPU
AgentPayload == CHOOSE p \in Payloads : p.valid /\ p.gpu = NoValue

\* what raise_for_status makes of the handler's answer
HttpStatus(out) == IF out.code = "ok" THEN "ok" ELSE "http_error"

\* the relay's side of one request
Served(r, out) ==
    IF r.sent
    THEN /\ Insert(out)
         /\ Finish(out)
         /\ UNCHANGED <<clock, bot, api, nops>>
    ELSE UNCHANGED srvVars

\* push_text(txt) served by POST /api/msg
LinkText(kind) ==
    \E env \in RequestEnvs :
        LET out == push_text(db, AgentSecret, kind, TRUE)
        IN  /\ DoRequest(kind, env, HttpStatus(out))
            /\ Served(_request(fpFile, liveCert, env), out)

LinkPush ==
    /\ cpc = "push"
    /\ cycles < MaxCycles
    /\ \E env \in RequestEnvs :
          LET out == push(db, AgentSecret, AgentPayload, clock)
          IN  /\ DoRequest("push", env, HttpStatus(out))
              /\ Served(_request(fpFile, liveCert, env), out)
    /\ cycles' = cycles + 1
    /\ cpc' = "pull"
    /\ UNCHANGED <<todo, liveCert, running, jobs>>
    /\ UNCHANGED fnVars

LinkPull ==
    /\ cpc = "pull"
    /\ \E env \in RequestEnvs :
          LET out == pull(db, AgentSecret)
              r == _request(fpFile, liveCert, env)
          IN  /\ DoRequest("pull", env, HttpStatus(out))
              /\ Served(r, out)
              /\ todo' = pull_cmds(r, HttpStatus(out), out.cmds)
    /\ cpc' = IF todo' = <<>> THEN "sleep" ELSE "dispatch"
    /\ UNCHANGED <<liveCert, running, jobs, cycles>>
    /\ UNCHANGED fnVars

LinkDispatch ==
    /\ cpc = "dispatch"
    /\ todo # <<>>
    /\ IF Head(todo) = "speedtest" /\ ~running
       THEN /\ running' = TRUE
            /\ jobs' = Append(jobs, "announce")
            /\ NoRequest
            /\ UNCHANGED srvVars
       ELSE /\ LinkText(IF Head(todo) = "speedtest" THEN "busy" ELSE Head(todo))
            /\ UNCHANGED <<running, jobs>>
    /\ todo' = Tail(todo)
    /\ cpc' = IF todo' = <<>> THEN "sleep" ELSE "dispatch"
    /\ UNCHANGED <<liveCert, cycles>>
    /\ UNCHANGED fnVars

LinkJobStep ==
    /\ \E i \in 1..Len(jobs) :
          \/ /\ jobs[i] = "announce"
             /\ LinkText("announce")
             /\ jobs' = [jobs EXCEPT ![i] = "test"]
             /\ UNCHANGED running
          \/ /\ jobs[i] = "test"
             /\ NoRequest
             /\ UNCHANGED srvVars
             /\ jobs' = [jobs EXCEPT ![i] = "report"]
             /\ UNCHANGED running
          \/ /\ jobs[i] = "report"
             /\ LinkText("report")
             /\ jobs' = [jobs EXCEPT ![i] = "clear"]
             /\ UNCHANGED running
          \/ /\ jobs[i] = "clear"
             /\ NoRequest
             /\ UNCHANGED srvVars
             /\ running' = FALSE
             /\ jobs' = RemoveAt(jobs, i)
    /\ UNCHANGED <<cpc, todo, liveCert, cycles>>
    /\ UNCHANGED fnVars

\* the owner of the agent's key presses reboot or speedtest (shutdown goes
\* the way of reboot on both sides)
LinkEnqueue ==
    \E a \in {"reboot", "speedtest"} : Handle(cb_enqueue(db, "u1", a, AgentSecret))

InitLink == SrvStart({SeedDb}) /\ CliStart({CertA}) /\ FnStart({<<>>}, {<<>>})

NextLink ==
    \/ LinkPush \/ LinkPull \/ LinkDispatch \/ LinkJobStep
    \/ Sleep \/ CertChange \/ LinkEnqueue

SpecLink == InitLink /\ [][NextLink]_vars

\* ------------------------------------------------------------------------
\* SpecGaps, SpecBkt: the chart helpers on the inputs plot_metric gives them
\* ------------------------------------------------------------------------
InitGaps == SrvStart({EmptyDb}) /\ CliStart({CertA}) /\ FnStart(GapInputs, {<<>>})

SpecGaps == InitGaps /\ [][FindGaps]_vars

InitBkt == SrvStart({EmptyDb}) /\ CliStart({CertA}) /\ FnStart({<<>>}, RowInputs)

NextBkt == Group \/ InsertAndGroup

SpecBkt == InitBkt /\ [][NextBkt]_vars

\* ========================================================================
\* Properties of the relay server
\* ========================================================================
\* a handler ran from start to reply in this step (Spec)
Handled == nops' = nops + 1 /\ clock' = clock

\* the commands queued for s that no pull has returned yet
Owed(s) == SubSeq(queued[s], Len(delivered[s]) + 1, Len(queued[s]))

Quiescent == bot = Idle /\ api = Idle

\* C1 (stated as claimed; SpecConc): whenever no handler is in flight, the
\* commands queued for a secret are exactly the commands the pulls returned
\* followed by the commands still pending, in enqueue order: none is lost
\* and none is delivered twice.
C1_DrainAtomicity ==
    Quiescent =>
        \A s \in DOMAIN db.secrets :
            queued[s] = delivered[s] \o db.secrets[s].pending

C4_MismatchFatal ==
    [][ tripped => (cycles' = cycles /\ last' = last) ]_vars

\* the main loop handled one command of the pulled list in this step
Dispatched == cpc = "dispatch" /\ todo # <<>> /\ todo' = Tail(todo)

\* C16 (SpecCli): at most one speed-test job exists at any moment, and it
\* exists only while speedtest_running is set; a speedtest command handled
\* while the flag is set starts no job and makes exactly one request, the
\* informational push, also when it follows a speedtest token of the same
\* pull.
C16_SingleFlight ==
    [][ /\ Len(jobs') <= 1
        /\ jobs' # <<>> => running'
        /\ (Dispatched /\ Head(todo) = "speedtest" /\ running) =>
               /\ jobs' = jobs
               /\ running'
               /\ reqs' # reqs
               /\ last'.kind = "busy"
        /\ (Dispatched /\ Head(todo) = "speedtest" /\ ~running) =>
               /\ jobs' = <<"announce">>
               /\ reqs' = reqs ]_vars

\* in the first cycle a job was started and a further speedtest token was
\* answered with the informational push before the job made any request
C16_Witness ==
    /\ cycles = 1
    /\ running
    /\ jobs = <<"announce">>
    /\ last.kind = "busy"
    /\ todo = <<>>

\* C17 (SpecCli): once FP_FILE holds a fingerprint, no request, whether it
\* matches, mismatches or fails, changes or removes it.
C17_PinWrittenOnce ==
    [][ fpFile # NoFp => fpFile' = fpFile ]_vars

\* after a refused request and a failed one the file still holds the
\* fingerprint of first contact, while the server presents another
\* certificate
C17_Witness ==
    /\ tripped
    /\ last.outcome = "error"
    /\ last.pinned = _fingerprint(CertA)
    /\ last.cert = CertB
    /\ fpFile = _fingerprint(CertA)

\* how a call ends when it fails for another reason than a mismatch
Failures == {"error", "http_error"}

\* C19 (SpecCliLive): a push or pull that fails for another reason than a
\* fingerprint mismatch does not stop the loop: after a failed push the
\* loop goes on to pull, a failed pull yields no command and the loop goes
\* to sleep, and from either the loop comes back to the top of its next
\* cycle.
C19_FailureIsCaught ==
    /\ [][ /\ (cpc = "push" /\ cycles' = cycles + 1 /\ last'.ended \in Failures)
                => cpc' = "pull"
           /\ (cpc = "pull" /\ cpc' # "pull" /\ last'.kind = "pull"
                    /\ last'.ended \in Failures)
                => (todo' = <<>> /\ cpc' = "sleep") ]_vars
    /\ (\/ cpc = "pull" /\ last.kind = "push" /\ last.ended \in Failures
        \/ cpc = "sleep" /\ last.kind = "pull" /\ last.ended \in Failures)
            ~> (cpc = "push")

\* no request of the first cycle got through, and neither did the push of
\* the second cycle
C19_Witness ==
    /\ cycles = 2
    /\ cpc = "pull"
    /\ jobs = <<>>
    /\ last.kind = "push"
    /\ last.ended \in Failures
    /\ fpFile = NoFp

\* C20 (SpecCliLive): while a speed-test job is in progress (whether or not
\* it ever ends) the main loop keeps going: a reboot or shutdown command is
\* dispatched with its push, the loop leaves the command list only when it
\* is exhausted, and the loop comes back to the top of its next cycle.
C20_SpeedtestNeverBlocks ==
    /\ [][ jobs # <<>> =>
             /\ (Dispatched /\ Head(todo) \in {"reboot", "shutdown"}) =>
                    (last'.kind = Head(todo) /\ reqs' # reqs)
             /\ (cpc = "dispatch" /\ cpc' # "dispatch") => todo' = <<>> ]_vars
    /\ (jobs # <<>> /\ cpc # "push") ~> (cpc = "push")

\* the job has announced itself and is testing; since then the loop has
\* dispatched a reboot in its second cycle
C20_Witness ==
    /\ jobs = <<"test">>
    /\ cycles = 2
    /\ last.kind = "reboot"
    /\ cpc = "sleep"

\* C18 (stated as claimed; SpecLink): a request that ends in the
\* fingerprint-mismatch error has had no effect on the relay that answered
\* it: no row appended, no status changed, no pending queue drained.
C18_MismatchHasNoEffect ==
    [][ (reqs' # reqs /\ last'.outcome = "mismatch") =>
            (db' = db /\ metrics' = metrics) ]_vars

ApiOps == {"push", "msg", "pull"}

\* an API request addressed to a secret that is no key of the registry
\* completed in this step
UnknownSecretCall ==
    Handled /\ resp'.op \in ApiOps /\ resp'.secret \notin DOMAIN db.secrets

\* C5 (stated as claimed; Spec): push, msg and pull to an unknown secret
\* always answer 404 and leave the registry and the metric store unchanged.
C5_UnknownSecretAlways404 ==
    [][ UnknownSecretCall =>
            resp'.code = "404" /\ db' = db /\ metrics' = metrics ]_vars

\* C5 (amended; Spec): push, msg and pull to an unknown secret answer 404
\* when the request body passes schema validation and 422 when it does
\* not; in both cases the registry and the metric store are unchanged.
C5_UnknownSecretIsolated ==
    [][ UnknownSecretCall =>
            /\ resp'.code = (IF resp'.valid THEN "404" ELSE "422")
            /\ db' = db
            /\ metrics' = metrics ]_vars

\* a well-formed push to an unknown secret was answered 404 while the
\* registry holds a key and the metric store holds a row
C5_Witness ==
    /\ resp.op = "push" /\ resp.code = "404" /\ resp.valid
    /\ resp.secret \notin DOMAIN db.secrets
    /\ DOMAIN db.secrets # {}
    /\ metrics # <<>>

\* C6 (stated as claimed; Spec): every entry keeps a non-empty owner set,
\* and no entry's owner set loses a member from one state to the next.
C6_OwnersMonotone ==
    [][ \A s \in DOMAIN db.secrets :
            /\ s \in DOMAIN db'.secrets
            /\ OwnerSet(db'.secrets[s]) # {}
            /\ OwnerSet(db.secrets[s]) \subseteq OwnerSet(db'.secrets[s]) ]_vars

\* C7 (stated as claimed; SpecConc): a save by a bot handler that writes
\* nickname or pending leaves every status as the API thread last wrote it,
\* and a save by push or msg leaves every nickname and pending as the bot
\* thread last wrote them.
C7_FieldWriteIsolation ==
    [][ /\ (bot.pc = "loaded" /\ bot' = Idle
                /\ bot.out.op \in {"renamekey"} \cup Cmds) =>
             \A s \in DOMAIN db.secrets :
                 /\ s \in DOMAIN db'.secrets
                 /\ db'.secrets[s].status = db.secrets[s].status
        /\ (api.pc = "loaded" /\ api' = Idle
                /\ api.out.op \in {"push", "msg"}) =>
             \A s \in DOMAIN db.secrets :
                 /\ s \in DOMAIN db'.secrets
                 /\ db'.secrets[s].nickname = db.secrets[s].nickname
                 /\ db'.secrets[s].pending = db.secrets[s].pending ]_vars

\* positions (from 0) i such that the interval ts[i] - ts[i-1] exceeds thr
GapPositions(ts, thr) ==
    {i \in 1..(Len(ts) - 1) : ts[i + 1] - ts[i] > thr}

\* C8 (SpecGaps): for at least two timestamps, _find_gaps reports a gap
\* between positions i-1 and i exactly when ts[i] - ts[i-1] exceeds
\* median(intervals) * factor, in ascending order; the segments are the
\* maximal runs of positions between gaps, partition 0..n-1 in order, and
\* are one more than the gaps; [0,30,60,600,630] gives threshold 60, the
\* one gap (60,600) and the segments (0,2) and (3,4).
C8_GapClassification ==
    (gout.done /\ Len(gin) >= 2) =>
        LET n == Len(gin)
            thr == median(Intervals(gin)) * Factor
            at == SetToSortedSeq(GapPositions(gin, thr))
            segs == gout.segments
        IN  /\ gout.thr = thr
            /\ gout.gaps = [j \in 1..Len(at) |-> <<gin[at[j]], gin[at[j] + 1]>>]
            /\ Len(segs) = Len(gout.gaps) + 1
            /\ segs[1][1] = 0
            /\ segs[Len(segs)][2] = n - 1
            /\ \A j \in 1..Len(segs) : segs[j][1] <= segs[j][2]
            /\ \A j \in 1..(Len(segs) - 1) :
                   /\ segs[j + 1][1] = segs[j][2] + 1
                   /\ segs[j + 1][1] = at[j]
            /\ gin = ExampleTs =>
                   /\ gout.thr = 60
                   /\ gout.gaps = << <<60, 600>> >>
                   /\ gout.segments = << <<0, 2>>, <<3, 4>> >>

\* _find_gaps has run on [0,30,60,600,630] and reported one gap
C8_Witness ==
    /\ gout.done
    /\ gin = ExampleTs
    /\ Len(gout.gaps) = 1

Reverse(q) == [i \in 1..Len(q) |-> q[Len(q) + 1 - i]]

\* C9 (SpecBkt): bucketing the same rows again, in whatever order they are
\* listed, gives the same buckets; and when a row is added whose timestamp
\* falls in the window of an existing bucket, the number of buckets and
\* their keys stay the same and every bucket other than that one keeps its
\* aggregate.
C9_BucketingLocal ==
    [][ grouped'.done =>
          /\ grouped'.buckets = group_30s(Reverse(rows'))
          /\ (grouped.done /\ rows' # rows) =>
                LET k == BucketKey(added'.ts)
                    old == grouped.buckets
                    new == grouped'.buckets
                IN  (\E j \in 1..Len(old) : old[j].ts = k) =>
                        /\ Len(new) = Len(old)
                        /\ \A j \in 1..Len(old) :
                               /\ new[j].ts = old[j].ts
                               /\ old[j].ts # k => new[j] = old[j] ]_vars

\* two buckets, and the row added last went into a bucket that already
\* held a row
C9_Witness ==
    /\ grouped.done
    /\ Len(grouped.buckets) = 2
    /\ added \in Range(rows)
    /\ Cardinality({i \in 1..Len(rows) :
                       BucketKey(rows[i].ts) = BucketKey(added.ts)}) = 2

\* C11 (stated as claimed; Spec): a push that does not answer ok has
\* appended no row and changed no entry: the stores are as before.
C11_RejectedPushStoresNothing ==
    [][ (Handled /\ resp'.op = "push" /\ resp'.code # "ok") =>
            (metrics' = metrics /\ db' = db) ]_vars

\* C12 (stated as claimed; Spec): for rename, set-active and command
\* enqueue, the reply to a non-owner of an existing secret differs from the
\* reply the same user gets for a secret that does not exist.
C12_DeniedDistinctFromNotFound ==
    \A u \in Users, s \in DOMAIN db.secrets, t \in Secrets \ DOMAIN db.secrets :
        ~is_owner(db.secrets[s], u) =>
            /\ \A n \in RenameArgs :
                   cmd_renamekey(db, u, s, n).code # cmd_renamekey(db, u, t, n).code
            /\ \A c \in Chats :
                   cmd_setactive(db, u, c, s).code # cmd_setactive(db, u, c, t).code
            /\ \A a \in Cmds :
                   cb_enqueue(db, u, a, s).code # cb_enqueue(db, u, a, t).code

GuardedOps == {"set", "renamekey"} \cup Cmds

\* the user of the handler that completed in this step owned its target
\* when the handler started
ActedAsOwner ==
    /\ resp'.secret \in DOMAIN db.secrets
    /\ is_owner(db.secrets[resp'.secret], resp'.user)

\* C13 (Spec): rename, set-active and command enqueue change the registry
\* only when the acting user is an owner of the target entry at the time of
\* the call; otherwise entries and active map are unchanged and nothing is
\* queued.
C13_OwnerOnlyMutation ==
    [][ (Handled /\ resp'.op \in GuardedOps) =>
            /\ resp'.code \in {"active_set", "renamed", "queued"} <=> ActedAsOwner
            /\ ~ActedAsOwner => (db' = db /\ queued' = queued) ]_vars

\* a reboot asked by a user who is not an owner of the existing target was
\* refused
C13_Witness ==
    /\ resp.op = "reboot" /\ resp.code = "no_access"
    /\ resp.secret \in DOMAIN db.secrets
    /\ ~is_owner(db.secrets[resp.secret], resp.user)
    /\ db.secrets[resp.secret].pending = <<>>

\* C14 (stated as claimed; Spec): create stores its entry under a secret
\* that was not a key of the registry, and leaves every existing entry as
\* it was.
C14_CreateNeverReuses ==
    [][ (Handled /\ resp'.op = "newkey") =>
            /\ resp'.secret \notin DOMAIN db.secrets
            /\ \A s \in DOMAIN db.secrets :
                   s \in DOMAIN db'.secrets /\ db'.secrets[s] = db.secrets[s] ]_vars

Count(q, x) == Cardinality({i \in 1..Len(q) : q[i] = x})

\* C15 (Spec): link on an existing entry leaves the owner set equal to the
\* previous one plus the user, who is listed once if absent before; link
\* with the same arguments on the resulting registry saves nothing, and a
\* link that follows a link of the same user and secret leaves the registry
\* as it was; link on a missing secret answers not-found and changes
\* nothing.
C15_LinkIdempotent ==
    [][ (Handled /\ resp'.op = "linkkey") =>
            LET s == resp'.secret
                u == resp'.user
            IN  IF s \notin DOMAIN db.secrets
                THEN resp'.code = "not_found" /\ db' = db
                ELSE /\ OwnerSet(db'.secrets[s]) = OwnerSet(db.secrets[s]) \cup {u}
                     /\ Count(db'.secrets[s].owners, u)
                            = (IF is_owner(db.secrets[s], u)
                               THEN Count(db.secrets[s].owners, u) ELSE 1)
                     /\ \A c \in Chats : ~cmd_linkkey(db', u, c, s).save
                     /\ (resp.op = "linkkey" /\ resp.secret = s /\ resp.user = u)
                            => db' = db ]_vars

\* u2 linked the key of u1 and then repeated the link
C15_Witness ==
    /\ resp.op = "linkkey" /\ resp.code = "already" /\ resp.user = "u2"
    /\ resp.secret \in DOMAIN db.secrets
    /\ db.secrets[resp.secret].owners = <<"u1", "u2">>

\* C10 (Spec): a push answered ok has appended exactly one row for its
\* secret, stamped with the server clock and carrying the payload's values,
\* and has replaced the entry's status by the text rendered from the same
\* payload.
C10_AcceptedPushStores ==
    [][ (Handled /\ resp'.op = "push" /\ resp'.code = "ok") =>
            LET s == resp'.secret
                p == resp'.payload
            IN  /\ s \in DOMAIN db.secrets
                /\ metrics' = Append(metrics,
                        [secret |-> s, ts |-> clock, cpu |-> p.cpu,
                         ram |-> p.ram, gpu |-> p.gpu, vram |-> p.vram])
                /\ db'.secrets[s].status.kind = "stats"
                /\ db'.secrets[s].status.cpu = p.cpu
                /\ db'.secrets[s].status.ram = p.ram
                /\ db'.secrets[s].status.gpu = p.gpu ]_vars

\* a push was accepted after the server clock had advanced
C10_Witness ==
    /\ resp.op = "push" /\ resp.code = "ok" /\ clock > 0
    /\ metrics # <<>> /\ metrics[Len(metrics)].ts = clock

\* C30 (SpecCliJobs): a speed-test job that was started clears the
\* single-flight flag in the end, whatever the outcome of the test and of
\* its pushes (ok, HTTP error, no connection, fingerprint mismatch): the
\* agent never stays in the speed-test-running state.
C30_FlagCleared == running ~> ~running

\* a second job has started after the first one ended with a result push
\* that was refused for a fingerprint mismatch
C30_Witness ==
    /\ running
    /\ jobs = <<"announce">>
    /\ last.kind = "report"
    /\ last.outcome = "mismatch"

\* ========================================================================
\* Further properties of the relay server
\* ========================================================================
\* the stored rows that a query for secret s since t has to return
Matching(m, s, t) == {i \in 1..Len(m) : m[i].secret = s /\ m[i].ts >= t}

\* C25 (Spec): fetch_metrics(secret, since) returns exactly the stored rows
\* of that secret with ts >= since, in ascending ts order, and no row of
\* another secret; whatever a handler then does, every row returned before
\* is still returned.
C25_FetchExact ==
    [][ \A s \in Secrets, t \in 0..MaxOps :
            LET before == fetch_metrics(metrics, s, t)
                after == fetch_metrics(metrics', s, t)
                hits == Matching(metrics', s, t)
            IN  /\ Len(after) = Cardinality(hits)
                /\ \A i \in hits :
                       Count(after, Selected(metrics'[i]))
                         = Cardinality({k \in hits :
                               Selected(metrics'[k]) = Selected(metrics'[i])})
                /\ \A i \in 1..Len(after) :
                       \E k \in hits : after[i] = Selected(metrics'[k])
                /\ \A i \in 1..(Len(after) - 1) : after[i].ts <= after[i + 1].ts
                /\ \A i \in 1..Len(before) :
                       Count(after, before[i]) >= Count(before, before[i]) ]_vars

\* the store holds rows of two secrets and a query for s1 returns one row
C25_Witness ==
    /\ Len(metrics) = 2
    /\ {metrics[i].secret : i \in 1..Len(metrics)} = {"s1", "s2"}
    /\ Len(fetch_metrics(metrics, "s1", 0)) = 1

\* C26 (Spec): after any sequence of create and rename operations every
\* nickname has at most 30 characters, and the one stored by a create or
\* rename is the first 30 characters of the name supplied.
C26_NicknameBounded ==
    \A s \in DOMAIN db.secrets :
        /\ Len(db.secrets[s].nickname) <= NameLimit
        /\ \/ db.secrets[s].nickname = DefaultName
           \/ \E n \in NameArgs \cup RenameArgs :
                  /\ Len(n) > NameLimit => Len(db.secrets[s].nickname) = NameLimit
                  /\ Len(n) <= NameLimit => Len(db.secrets[s].nickname) = Len(n)
                  /\ \A i \in 1..Len(db.secrets[s].nickname) :
                         db.secrets[s].nickname[i] = n[i]

\* an entry whose nickname is a supplied name of 31 characters cut to 30
C26_Witness ==
    \E s \in DOMAIN db.secrets :
        /\ Len(db.secrets[s].nickname) = NameLimit
        /\ resp.op = "renamekey" /\ resp.code = "renamed" /\ resp.secret = s

\* C27 (Spec): run one at a time, msg sets the status of its entry to the
\* text and changes nothing else, push changes only the status of its entry
\* and appends at most one row, pull changes only pending of its entry; none
\* of them changes owners or nickname, another entry, the set of keys or
\* the active map, and msg and push leave pending as it is.
C27_ApiFrame ==
    [][ (Handled /\ resp'.op \in {"push", "msg", "pull"}) =>
            LET s == resp'.secret
            IN  /\ db'.active = db.active
                /\ DOMAIN db'.secrets = DOMAIN db.secrets
                /\ \A t \in DOMAIN db.secrets :
                       t # s => db'.secrets[t] = db.secrets[t]
                /\ s \notin DOMAIN db.secrets => (db' = db /\ metrics' = metrics)
                /\ s \in DOMAIN db.secrets =>
                       /\ db'.secrets[s].owners = db.secrets[s].owners
                       /\ db'.secrets[s].nickname = db.secrets[s].nickname
                       /\ resp'.op = "msg" =>
                              /\ db'.secrets[s].pending = db.secrets[s].pending
                              /\ metrics' = metrics
                              /\ resp'.code = "ok" =>
                                     db'.secrets[s].status = TextStatus(resp'.text)
                              /\ resp'.code # "ok" => db' = db
                       /\ resp'.op = "push" =>
                              /\ db'.secrets[s].pending = db.secrets[s].pending
                              /\ \/ metrics' = metrics
                                 \/ /\ Len(metrics') = Len(metrics) + 1
                                    /\ SubSeq(metrics', 1, Len(metrics)) = metrics
                       /\ resp'.op = "pull" =>
                              /\ db'.secrets[s].status = db.secrets[s].status
                              /\ metrics' = metrics ]_vars

\* a text push was accepted for an entry that has a command queued
C27_Witness ==
    /\ resp.op = "msg" /\ resp.code = "ok"
    /\ resp.secret \in DOMAIN db.secrets
    /\ db.secrets[resp.secret].pending # <<>>
    /\ db.secrets[resp.secret].status = TextStatus(resp.text)

\* C21 (stated as claimed; SpecView): a status is shown, a chart is produced
\* and a command is queued only for a user who is an owner of the entry the
\* operation is about.
C21_PrivilegedNeedsOwner ==
    [][ (/\ Handled
         /\ resp'.op \in {"status", "graph"} \cup Cmds
         /\ resp'.code \in {"status_shown", "chart", "queued"})
            => ActedAsOwner ]_vars

\* C28 (stated as claimed; SpecConc): the save of a push, msg or pull that
\* was between its load and its save leaves every owner of every entry in
\* place, whatever the bot thread saved in between.
C28_OwnersSurviveApiSave ==
    [][ (api.pc = "loaded" /\ api' = Idle) =>
            \A s \in DOMAIN db.secrets :
                /\ s \in DOMAIN db'.secrets
                /\ OwnerSet(db.secrets[s]) \subseteq OwnerSet(db'.secrets[s]) ]_vars

\* ========================================================================
\* Properties of the chart helpers
\* ========================================================================
\* the rows that fall in the bucket of key k
Members(k) == SelectSeq(rows, LAMBDA r : r.ts - (r.ts % BucketWidth) = k)

Column(vals, f) == [i \in 1..Len(vals) |-> vals[i][f]]

\* the fraction frac is total / n
IsMeanOf(frac, total, n) == frac[2] > 0 /\ frac[1] * n = frac[2] * total

\* C22 (SpecBkt): every row falls in exactly one bucket, the one keyed by
\* ts - (ts mod 30); there is one bucket per distinct key, the keys are
\* multiples of 30 in strictly ascending order, and cpu and ram of a bucket
\* are the arithmetic means over the rows of that key.
C22_BucketsPartition ==
    grouped.done =>
        LET b == grouped.buckets
            keys == {rows[i].ts - (rows[i].ts % BucketWidth) : i \in 1..Len(rows)}
        IN  /\ {b[j].ts : j \in 1..Len(b)} = keys
            /\ Len(b) = Cardinality(keys)
            /\ \A j \in 1..(Len(b) - 1) : b[j].ts < b[j + 1].ts
            /\ \A j \in 1..Len(b) : b[j].ts % BucketWidth = 0
            /\ \A i \in 1..Len(rows) :
                   Cardinality({j \in 1..Len(b) :
                       b[j].ts <= rows[i].ts /\ rows[i].ts < b[j].ts + BucketWidth}) = 1
            /\ \A j \in 1..Len(b) :
                   LET vals == Members(b[j].ts)
                   IN  /\ vals # <<>>
                       /\ IsMeanOf(b[j].cpu, Sum(Column(vals, "cpu")), Len(vals))
                       /\ IsMeanOf(b[j].ram, Sum(Column(vals, "ram")), Len(vals))

\* three rows in two buckets; the bucket of two rows averages 10 and 50
C22_Witness ==
    /\ grouped.done
    /\ Len(rows) = 3
    /\ Len(grouped.buckets) = 2
    /\ \E j \in 1..2 : grouped.buckets[j].cpu = <<30, 1>>

\* C23 (SpecBkt): gpu (likewise vram) of a bucket is None exactly when no
\* row of the bucket carries the field; in that case it is not zero.
C23_AbsentFieldIsNone ==
    grouped.done =>
        \A j \in 1..Len(grouped.buckets), f \in {"gpu", "vram"} :
            LET vals == Members(grouped.buckets[j].ts)
                absent == \A i \in 1..Len(vals) : vals[i][f] = NoValue
            IN  /\ (grouped.buckets[j][f] = NoMean) <=> absent
                /\ absent => grouped.buckets[j][f][2] = 0

\* one bucket without gpu next to one with gpu
C23_Witness ==
    /\ grouped.done
    /\ Len(grouped.buckets) = 2
    /\ grouped.buckets[1].gpu = NoMean
    /\ grouped.buckets[2].gpu # NoMean

\* C29 (stated as claimed; SpecBkt): where at least one row of a bucket
\* carries gpu (likewise vram), the bucket's value lies between the least
\* and the greatest value present among its rows.
C29_MeanWithinPresentValues ==
    grouped.done =>
        \A j \in 1..Len(grouped.buckets), f \in {"gpu", "vram"} :
            LET vals == Members(grouped.buckets[j].ts)
                present == {vals[i][f] : i \in 1..Len(vals)} \ {NoValue}
                v == grouped.buckets[j][f]
            IN  present # {} =>
                    /\ v[2] > 0
                    /\ \A x \in present :
                           (\A y \in present : x <= y) => x * v[2] <= v[1]
                    /\ \A x \in present :
                           (\A y \in present : y <= x) => v[1] <= x * v[2]

\* C24 (stated as claimed; SpecGaps): when the median interval is not
\* positive the greatest interval takes its place; for fewer than two
\* timestamps the threshold is 60 * factor, no gap is reported, and the one
\* segment covers exactly the positions 0..n-1.
C24_GapFallbacks ==
    gout.done =>
        LET n == Len(gin)
        IN  /\ (n >= 2 /\ median(Intervals(gin)) <= 0) =>
                   gout.thr = Max(Intervals(gin)) * Factor
            /\ n < 2 =>
                   /\ gout.thr = FallbackInterval * Factor
                   /\ gout.gaps = <<>>
                   /\ Len(gout.segments) = 1
                   /\ \A j \in 1..Len(gout.segments) :
                          /\ gout.segments[j][1] \in 0..(n - 1)
                          /\ gout.segments[j][2] \in 0..(n - 1)

====
